---- MODULE Spec2Model ----
(***************************************************************************)
(* A model of nist-compliance-sentinel: the output validator               *)
(* (output_validator.py) and the workflow that generates, saves and        *)
(* publishes the summary (main.py, tools/github_tool.py,                   *)
(* agents/nist_agent.py).                                                  *)
(*                                                                         *)
(* A Python str is a TLA+ string.  Len, SubSeq and \o act on strings, so   *)
(* substring tests, regular-expression matches and slices are computed     *)
(* character by character, as Python computes them.  Python offsets are    *)
(* 0-based and TLA+ positions 1-based: character k of Python is character  *)
(* k+1 here, and the slice s[a:b] is SubSeq(s, a+1, b).                    *)
(***************************************************************************)
EXTENDS Integers, Sequences, FiniteSets, TLC

VARIABLES
    errors,          \* self.errors of the NISTOutputValidator object
    warnings,        \* self.warnings
    passed_checks,   \* self.passed_checks
    content,         \* the text validate_file read from the file
    pc,              \* where the validator's control is
    result,          \* the dict validate_file returned (None before it returns)
    exit_code,       \* the validator process's exit code (None while it runs)
    calls,           \* validate_file calls made on the object so far
    wpc,             \* where the control of main.py is
    config,          \* Config: whether OPENAI_API_KEY and GITHUB_TOKEN are set
    articles,        \* articles of main
    summary,         \* summary of main (None before Step 5)
    local_file,      \* the text of the file main wrote (None before it is written)
    repo,            \* the GitHub repository: the new branch, its file, the pull request
    outputs,         \* what _save_locally wrote: <<>> or the text, in a tuple
    summary_content, \* the argument of create_pull_request (None before the call)
    workflow_result, \* result of main (None before Step 6)
    validated,       \* the runs of the validator on local_file: text and status
    done             \* the checks validate_file has called since it read the file

\* the variables of the validator and those of the workflow
vvars == <<errors, warnings, passed_checks, content, pc, result, exit_code, calls>>
wvars == <<wpc, config, articles, summary, local_file, repo, outputs,
           summary_content, workflow_result, validated>>
vars == <<vvars, wvars, done>>

None == [none |-> TRUE]

-----------------------------------------------------------------------------
(* The validator's tables.                                                 *)

\* self.verified_pubs, in the dict's insertion order (the titles are never read)
verified_pubs == <<
    [pub_id |-> "800-218A",  date |-> "2024-07-26"],
    [pub_id |-> "800-171r3", date |-> "2024-05-15"],
    [pub_id |-> "csf-2.0",   date |-> "2024-02-26"],
    [pub_id |-> "800-204D",  date |-> "2024-02-01"],
    [pub_id |-> "800-218",   date |-> "2022-02-04"],
    [pub_id |-> "800-161r1", date |-> "2022-05-13"],
    [pub_id |-> "800-215",   date |-> "2022-11-17"],
    [pub_id |-> "800-53r5",  date |-> "2020-09-23"],
    [pub_id |-> "800-190",   date |-> "2017-09-01"] >>

\* self.invalid_pubs
invalid_pubs == << "800-204C", "800-210" >>

\* required_sections of _check_required_sections
required_sections == <<
    "Executive Summary",
    "Latest Updates Discovered",
    "Impact on Software Development Organizations",
    "Key Actions and Checklist",
    "References and Citations",
    "Quick Reference Table" >>

\* key_pubs of _check_publication_coverage
key_pubs == << "800-218A", "800-218", "800-171", "800-204D" >>

-----------------------------------------------------------------------------
(* Python's str operations.                                                *)

Char(s, i) == SubSeq(s, i, i)

Min(S) == CHOOSE x \in S : \A y \in S : x <= y
Max(S) == CHOOSE x \in S : \A y \in S : x >= y

\* s in text
Contains(text, s) ==
    \E i \in 1..(Len(text) - Len(s) + 1) : SubSeq(text, i, i + Len(s) - 1) = s

\* the positions at which s occurs in text
Occurrences(text, s) ==
    {i \in 1..(Len(text) - Len(s) + 1) : SubSeq(text, i, i + Len(s) - 1) = s}

\* s.split(sep), for a non-empty sep: the pieces between the occurrences of sep
RECURSIVE split(_, _)
split(s, sep) ==
    LET occ == Occurrences(s, sep)
    IN  IF occ = {} THEN <<s>>
        ELSE LET i == Min(occ)
             IN  <<SubSeq(s, 1, i - 1)>> \o split(SubSeq(s, i + Len(sep), Len(s)), sep)

\* s.replace(old, new), for a non-empty old: the leftmost occurrences, not overlapping
RECURSIVE replace(_, _, _)
replace(s, old, new) ==
    LET occ == Occurrences(s, old)
    IN  IF occ = {} THEN s
        ELSE LET i == Min(occ)
             IN  SubSeq(s, 1, i - 1) \o new
                   \o replace(SubSeq(s, i + Len(old), Len(s)), old, new)

\* sep.join(parts)
RECURSIVE join(_, _)
join(sep, parts) ==
    IF parts = <<>> THEN ""
    ELSE IF Len(parts) = 1 THEN parts[1]
    ELSE parts[1] \o sep \o join(sep, Tail(parts))

-----------------------------------------------------------------------------
(* Python's re, for the patterns the validator uses.                       *)

UpperCase == "ABCDEFGHIJKLMNOPQRSTUVWXYZ"
LowerCase == "abcdefghijklmnopqrstuvwxyz"
UpperChars == {Char(UpperCase, k) : k \in 1..26}
LowerOf == [ch \in UpperChars |-> Char(LowerCase, CHOOSE k \in 1..26 : Char(UpperCase, k) = ch)]

\* the case folding of re.IGNORECASE, on the characters of the model's texts
lower(ch) == IF ch \in UpperChars THEN LowerOf[ch] ELSE ch

Digit == {"0", "1", "2", "3", "4", "5", "6", "7", "8", "9"}      \* \d
Whitespace == {" ", "\t", "\n", "\r"}                            \* \s

\* One atom of a pattern built from a publication id against one character, under
\* re.IGNORECASE: "." is any character but a newline, the other characters of the
\* ids (letters, digits, "-", " ") are literals.
AtomMatches(atom, ch) ==
    IF atom = "." THEN ch # "\n" ELSE lower(atom) = lower(ch)

MatchesAt(pattern, text, i) ==
    \A k \in 1..Len(pattern) : AtomMatches(Char(pattern, k), Char(text, i + k - 1))

\* re.search(pattern, text, re.IGNORECASE): the match object of the leftmost match,
\* with Python's start() and end(), or None
re_search(pattern, text) ==
    LET starts == {i \in 1..(Len(text) - Len(pattern) + 1) : MatchesAt(pattern, text, i)}
    IN  IF starts = {} THEN None
        ELSE [start |-> Min(starts) - 1, end |-> Min(starts) - 1 + Len(pattern)]

\* r'\d{4}-\d{2}-\d{2}' matches at position i
DateAt(text, i) ==
    /\ i + 9 <= Len(text)
    /\ \A k \in 0..9 : IF k \in {4, 7} THEN Char(text, i + k) = "-"
                                      ELSE Char(text, i + k) \in Digit

\* re.findall(r'\d{4}-\d{2}-\d{2}', text), scanning from position from: the leftmost
\* match, then the matches of the text after it
RECURSIVE findall_dates(_, _)
findall_dates(text, from) ==
    LET starts == {i \in from..(Len(text) - 9) : DateAt(text, i)}
    IN  IF starts = {} THEN <<>>
        ELSE LET i == Min(starts)
             IN  <<SubSeq(text, i, i + 9)>> \o findall_dates(text, i + 10)

UrlPrefix == "https://csrc.nist.gov"

\* [^\s\)]
UrlChar(ch) == ch \notin Whitespace /\ ch # ")"

\* r'https://csrc\.nist\.gov[^\s\)]+' matches at position i
UrlAt(text, i) ==
    /\ i + Len(UrlPrefix) <= Len(text)
    /\ SubSeq(text, i, i + Len(UrlPrefix) - 1) = UrlPrefix
    /\ UrlChar(Char(text, i + Len(UrlPrefix)))

\* the last position of the greedy match that starts at i
UrlEnd(text, i) ==
    LET stops == {j \in (i + Len(UrlPrefix))..Len(text) : ~UrlChar(Char(text, j))}
    IN  IF stops = {} THEN Len(text) ELSE Min(stops) - 1

\* re.findall(r'https://csrc\.nist\.gov[^\s\)]+', text), scanning from position from
RECURSIVE findall_urls(_, _)
findall_urls(text, from) ==
    LET starts == {i \in from..(Len(text) - Len(UrlPrefix)) : UrlAt(text, i)}
    IN  IF starts = {} THEN <<>>
        ELSE LET i == Min(starts)
             IN  <<SubSeq(text, i, UrlEnd(text, i))>>
                   \o findall_urls(text, UrlEnd(text, i) + 1)

CorrectPrefix == "https://csrc.nist.gov/pubs/sp/"

\* re.match(r'https://csrc\.nist\.gov/pubs/sp/\d+/[^/\s]+/final', url): anchored at
\* the start of url and not at its end; d digits, "/", s characters that are neither
\* "/" nor whitespace, "/final"
match_correct_pattern(url) ==
    LET n == Len(CorrectPrefix)
    IN  /\ Len(url) >= n
        /\ SubSeq(url, 1, n) = CorrectPrefix
        /\ \E d \in 1..(Len(url) - n) : \E s \in 1..(Len(url) - n - d) :
              /\ n + d + 1 + s + 6 <= Len(url)
              /\ \A k \in (n + 1)..(n + d) : Char(url, k) \in Digit
              /\ Char(url, n + d + 1) = "/"
              /\ \A k \in (n + d + 2)..(n + d + 1 + s) :
                    Char(url, k) # "/" /\ Char(url, k) \notin Whitespace
              /\ SubSeq(url, n + d + 2 + s, n + d + 1 + s + 6) = "/final"

\* the position after the line that holds position i: that of its "\n", or Len + 1
LineEnd(text, i) ==
    LET nls == {j \in i..Len(text) : Char(text, j) = "\n"}
    IN  IF nls = {} THEN Len(text) + 1 ELSE Min(nls)

\* the "|" of the line of position i that come after i
PipesAfter(text, i) == {j \in (i + 1)..(LineEnd(text, i) - 1) : Char(text, j) = "|"}

\* r'\|.*\|.*\|' matches at position i: a "|", and two more on the same line ("."
\* matches no newline)
TableRowAt(text, i) == Char(text, i) = "|" /\ Cardinality(PipesAfter(text, i)) >= 2

\* re.findall(r'\|.*\|.*\|', text), scanning from position from: the leftmost match
\* runs, both ".*" being greedy, to the last "|" of its line
RECURSIVE findall_table_rows(_, _)
findall_table_rows(text, from) ==
    LET starts == {i \in from..Len(text) : TableRowAt(text, i)}
    IN  IF starts = {} THEN <<>>
        ELSE LET i == Min(starts)
                 e == Max(PipesAfter(text, i))
             IN  <<SubSeq(text, i, e)>> \o findall_table_rows(text, e + 1)

-----------------------------------------------------------------------------
(* The six checks of NISTOutputValidator.  self is the object's three      *)
(* lists; a check returns self with the findings it appended.  The findings *)
(* are the messages of the code without their leading mark (a check mark,  *)
(* a warning sign or a cross, which are not ASCII).                         *)

\* a string in lower case
RECURSIVE LowerText(_)
LowerText(s) ==
    IF Len(s) <= 1 THEN lower(s)
    ELSE LowerText(SubSeq(s, 1, Len(s) \div 2))
           \o LowerText(SubSeq(s, Len(s) \div 2 + 1, Len(s)))

\* _check_required_sections matching the headings without regard to case
RECURSIVE check_required_sections_nocase_from(_, _, _)
check_required_sections_nocase_from(self, text, k) ==
    IF k > Len(required_sections) THEN self
    ELSE LET section == required_sections[k]
             after == IF Contains(LowerText(text), LowerText(section))
                      THEN [self EXCEPT !.passed_checks =
                                Append(@, "Section found: " \o section)]
                      ELSE [self EXCEPT !.errors =
                                Append(@, "Missing required section: " \o section)]
         IN  check_required_sections_nocase_from(after, text, k + 1)

check_required_sections_nocase(self, text) ==
    check_required_sections_nocase_from(self, text, 1)

RECURSIVE check_required_sections_from(_, _, _)
check_required_sections_from(self, text, k) ==
    IF k > Len(required_sections) THEN self
    ELSE LET section == required_sections[k]
             after == IF Contains(text, section)
                      THEN [self EXCEPT !.passed_checks =
                                Append(@, "Section found: " \o section)]
                      ELSE [self EXCEPT !.errors =
                                Append(@, "Missing required section: " \o section)]
         IN  check_required_sections_from(after, text, k + 1)

\* _check_required_sections
check_required_sections(self, text) == check_required_sections_from(self, text, 1)

\* the two patterns built from a publication id
patterns(pub_id) ==
    << "800-" \o split(pub_id, "-")[2],      \* rf"800-{pub_id.split('-')[1]}"
       "SP " \o replace(pub_id, "-", " ") >> \* rf"SP {pub_id.replace('-', ' ')}"

\* the chars argument of _get_context at its one call, and its default
ContextChars == 200

\* _get_context
get_context(text, pattern, chars) ==
    LET match == re_search(pattern, text)
    IN  IF match # None
        THEN LET start == IF match.start - chars > 0 THEN match.start - chars ELSE 0
                 end   == IF match.end + chars < Len(text) THEN match.end + chars
                                                           ELSE Len(text)
             IN  SubSeq(text, start + 1, end)
        ELSE ""

\* the body of the loop over patterns comparing the first date of the window alone
check_publication_pattern_first_date(self, text, pub_id, pub_info, pattern) ==
    IF re_search(pattern, text) # None
    THEN LET correct_date == pub_info.date
             pub_context  == get_context(text, pattern, ContextChars)
             dates_found  == findall_dates(pub_context, 1)
         IN  IF dates_found # <<>> /\ dates_found[1] = correct_date
             THEN [self EXCEPT !.passed_checks =
                      Append(@, "Correct date for " \o pub_id \o ": " \o correct_date)]
             ELSE IF dates_found # <<>>
             THEN [self EXCEPT !.warnings =
                      Append(@, "Possible incorrect date for " \o pub_id
                                 \o ". Expected: " \o correct_date
                                 \o ", Found: " \o dates_found[1])]
             ELSE self
    ELSE self

\* the body of the loop over patterns, for one publication and one pattern
check_publication_pattern(self, text, pub_id, pub_info, pattern) ==
    IF re_search(pattern, text) # None
    THEN LET correct_date == pub_info.date
             pub_context  == get_context(text, pattern, ContextChars)
             dates_found  == findall_dates(pub_context, 1)
         IN  IF \E k \in 1..Len(dates_found) : dates_found[k] = correct_date
             THEN [self EXCEPT !.passed_checks =
                      Append(@, "Correct date for " \o pub_id \o ": " \o correct_date)]
             ELSE IF dates_found # <<>>
             THEN [self EXCEPT !.warnings =
                      Append(@, "Possible incorrect date for " \o pub_id
                                 \o ". Expected: " \o correct_date
                                 \o ", Found: " \o dates_found[1])]
             ELSE self
    ELSE self

\* the loops of _check_publication_dates from publication k, pattern j on
RECURSIVE check_publication_dates_from(_, _, _, _)
check_publication_dates_from(self, text, k, j) ==
    IF k > Len(verified_pubs) THEN self
    ELSE LET pub_id == verified_pubs[k].pub_id
         IN  IF j > Len(patterns(pub_id))
             THEN check_publication_dates_from(self, text, k + 1, 1)
             ELSE check_publication_dates_from(
                      check_publication_pattern(self, text, pub_id, verified_pubs[k],
                                                patterns(pub_id)[j]),
                      text, k, j + 1)

\* _check_publication_dates
check_publication_dates(self, text) == check_publication_dates_from(self, text, 1, 1)

\* _check_invalid_publications matching an identifier only as a word of its own,
\* between spaces or the ends of the text
RECURSIVE check_invalid_publications_words_from(_, _, _)
check_invalid_publications_words_from(self, text, k) ==
    IF k > Len(invalid_pubs) THEN self
    ELSE LET invalid_pub == invalid_pubs[k]
             after == IF Contains(" " \o text \o " ", " " \o invalid_pub \o " ")
                      THEN [self EXCEPT !.errors =
                                Append(@, "Invalid publication referenced: " \o invalid_pub)]
                      ELSE [self EXCEPT !.passed_checks =
                                Append(@, "No reference to invalid publication: "
                                           \o invalid_pub)]
         IN  check_invalid_publications_words_from(after, text, k + 1)

check_invalid_publications_words(self, text) ==
    check_invalid_publications_words_from(self, text, 1)

RECURSIVE check_invalid_publications_from(_, _, _)
check_invalid_publications_from(self, text, k) ==
    IF k > Len(invalid_pubs) THEN self
    ELSE LET invalid_pub == invalid_pubs[k]
             after == IF Contains(text, invalid_pub)
                      THEN [self EXCEPT !.errors =
                                Append(@, "Invalid publication referenced: " \o invalid_pub)]
                      ELSE [self EXCEPT !.passed_checks =
                                Append(@, "No reference to invalid publication: "
                                           \o invalid_pub)]
         IN  check_invalid_publications_from(after, text, k + 1)

\* _check_invalid_publications
check_invalid_publications(self, text) == check_invalid_publications_from(self, text, 1)

RECURSIVE check_urls_from(_, _, _)
check_urls_from(self, urls, k) ==
    IF k > Len(urls) THEN self
    ELSE LET url == urls[k]
             after == IF match_correct_pattern(url)
                      THEN [self EXCEPT !.passed_checks =
                                Append(@, "Correct URL format: " \o url)]
                      ELSE [self EXCEPT !.warnings =
                                Append(@, "Check URL format: " \o url)]
         IN  check_urls_from(after, urls, k + 1)

\* _check_urls
check_urls(self, text) == check_urls_from(self, findall_urls(text, 1), 1)

\* _check_duplicate_tables putting its finding before those of the list
check_duplicate_tables_prepend(self, text) ==
    LET table_headers == findall_table_rows(text, 1)
    IN  IF Len(table_headers) > 5
        THEN [self EXCEPT !.warnings =
                 <<"Multiple tables detected (" \o ToString(Len(table_headers))
                     \o " rows). Verify no duplicates.">> \o @]
        ELSE [self EXCEPT !.passed_checks =
                 <<"Single reference table (no duplicates)">> \o @]

\* _check_duplicate_tables warning from five rows on
check_duplicate_tables_from_five(self, text) ==
    LET table_headers == findall_table_rows(text, 1)
    IN  IF Len(table_headers) >= 5
        THEN [self EXCEPT !.warnings =
                 Append(@, "Multiple tables detected (" \o ToString(Len(table_headers))
                            \o " rows). Verify no duplicates.")]
        ELSE [self EXCEPT !.passed_checks =
                 Append(@, "Single reference table (no duplicates)")]

\* _check_duplicate_tables
check_duplicate_tables(self, text) ==
    LET table_headers == findall_table_rows(text, 1)
    IN  IF Len(table_headers) > 5
        THEN [self EXCEPT !.warnings =
                 Append(@, "Multiple tables detected (" \o ToString(Len(table_headers))
                            \o " rows). Verify no duplicates.")]
        ELSE [self EXCEPT !.passed_checks =
                 Append(@, "Single reference table (no duplicates)")]

\* _check_publication_coverage with one warning for each missing publication
RECURSIVE check_publication_coverage_each_from(_, _, _)
check_publication_coverage_each_from(self, text, k) ==
    IF k > Len(key_pubs) THEN self
    ELSE check_publication_coverage_each_from(
             IF ~Contains(text, key_pubs[k])
             THEN [self EXCEPT !.warnings =
                      Append(@, "Key publications not mentioned: " \o key_pubs[k])]
             ELSE self,
             text, k + 1)

check_publication_coverage_each(self, text) ==
    LET after == check_publication_coverage_each_from(self, text, 1)
    IN  IF after = self
        THEN [self EXCEPT !.passed_checks = Append(@, "All key publications referenced")]
        ELSE after

\* the list missing of _check_publication_coverage, from key publication k on
RECURSIVE missing_from(_, _)
missing_from(text, k) ==
    IF k > Len(key_pubs) THEN <<>>
    ELSE (IF ~Contains(text, key_pubs[k]) THEN <<key_pubs[k]>> ELSE <<>>)
            \o missing_from(text, k + 1)

\* _check_publication_coverage keeping its warning back when there is one already
check_publication_coverage_quiet(self, text) ==
    LET missing == missing_from(text, 1)
    IN  IF missing # <<>>
        THEN IF self.warnings = <<>>
             THEN [self EXCEPT !.warnings =
                      Append(@, "Key publications not mentioned: " \o join(", ", missing))]
             ELSE self
        ELSE [self EXCEPT !.passed_checks = Append(@, "All key publications referenced")]

\* _check_publication_coverage
check_publication_coverage(self, text) ==
    LET missing == missing_from(text, 1)
    IN  IF missing # <<>>
        THEN [self EXCEPT !.warnings =
                 Append(@, "Key publications not mentioned: " \o join(", ", missing))]
        ELSE [self EXCEPT !.passed_checks = Append(@, "All key publications referenced")]

\* _generate_report testing self.warnings before self.errors
generate_report_warnings_first(self) ==
    IF self.warnings # <<>>
    THEN [status |-> "passed_with_warnings", warnings |-> Len(self.warnings)]
    ELSE IF self.errors # <<>>
    THEN [status |-> "failed", errors |-> Len(self.errors)]
    ELSE [status |-> "passed"]

\* the dict _generate_report returns
generate_report(self) ==
    IF self.errors # <<>>
    THEN [status |-> "failed", errors |-> Len(self.errors)]
    ELSE IF self.warnings # <<>>
    THEN [status |-> "passed_with_warnings", warnings |-> Len(self.warnings)]
    ELSE [status |-> "passed"]

\* total_checks of _generate_report
total_checks(self) == Len(self.passed_checks) + Len(self.warnings) + Len(self.errors)

\* the tenths f"{pass_rate:.1f}" shows, rounding the quotient down
pass_rate_tenths_floor(self) ==
    IF total_checks(self) > 0
    THEN (1000 * Len(self.passed_checks)) \div total_checks(self)
    ELSE 0

\* the tenths f"{pass_rate:.1f}" shows for pass_rate = passed / total * 100 (0 for
\* no check): the format rounds the float to the nearest tenth, a tie to the even
\* one; for every total below 80 the float rounds as the exact quotient does
pass_rate_tenths(self) ==
    IF total_checks(self) > 0
    THEN LET q == (1000 * Len(self.passed_checks)) \div total_checks(self)
             r == (1000 * Len(self.passed_checks)) % total_checks(self)
         IN  IF 2 * r > total_checks(self) \/ (2 * r = total_checks(self) /\ q % 2 = 1)
             THEN q + 1 ELSE q
    ELSE 0

\* f"{x:.1f}" for x of tenths tenths
format_1f(tenths) == ToString(tenths \div 10) \o "." \o ToString(tenths % 10)

\* the summary line _generate_report prints
summary_line(self) ==
    "SUMMARY: " \o ToString(Len(self.passed_checks)) \o "/" \o ToString(total_checks(self))
    \o " checks passed (" \o format_1f(pass_rate_tenths(self)) \o "%)"

\* self.errors, self.warnings and self.passed_checks as __init__ sets them
NewValidator == [errors |-> <<>>, warnings |-> <<>>, passed_checks |-> <<>>]

\* the six calls of validate_file, in its order
run_checks(self, text) ==
    check_publication_coverage(
      check_duplicate_tables(
        check_urls(
          check_invalid_publications(
            check_publication_dates(
              check_required_sections(self, text), text), text), text), text), text)

-----------------------------------------------------------------------------
(* The report texts the model validates.                                   *)

\* the longest sequence of tokens of a body text
MaxTokens == 2
\* the most rows of a table
MaxRows == 6

RECURSIVE Concat(_)
Concat(seq) == IF seq = <<>> THEN "" ELSE Head(seq) \o Concat(Tail(seq))

RECURSIVE Repeat(_, _)
Repeat(s, n) == IF n = 0 THEN "" ELSE s \o Repeat(s, n - 1)

\* 191 characters that no pattern matches: a date right after them is cut by the
\* window of a match right before them
Dots == ".................................................."      \* 50 of them
Pad == Dots \o Dots \o Dots \o SubSeq(Dots, 1, 41)

Tokens == {
    "800-218A", "800-218a", "SP 800 218A", "800-171", "800-204D",
    "800-204C", "800-210",
    "2024-07-26", "2024-07-25",
    "https://csrc.nist.gov/pubs/sp/800/218/final ",
    "https://csrc.nist.gov/pubs/sp/800/218/a/final ",
    "https://csrc.nist.gov/pubs/sp/800/210/ ",
    "HTTPS://CSRC.NIST.GOV/pubs/sp/800/218/final ",
    Pad }

\* the texts of at most n tokens
TokenTexts(n) == {Concat(seq) : seq \in UNION {[1..k -> Tokens] : k \in 0..n}}

\* the texts made of tokens alone
BodyTexts == TokenTexts(MaxTokens)

\* the headings of present as lines of a report, as written or in lower case
RECURSIVE Headings(_, _, _)
Headings(present, lowered, k) ==
    IF k > Len(required_sections) THEN ""
    ELSE (IF k \in present
          THEN "## " \o (IF k \in lowered THEN LowerText(required_sections[k])
                                          ELSE required_sections[k]) \o "\n"
          ELSE "")
         \o Headings(present, lowered, k + 1)

AllSections == 1..Len(required_sections)

\* the texts made of headings alone: any of the six, at most one of them in
\* lower case
SectionTexts ==
    UNION {{Headings(present, lowered, 1) :
               lowered \in {{}} \cup {{k} : k \in present}} :
           present \in SUBSET AllSections}

TableRow == "| a | b |\n"      \* three "|"
NarrowRow == "| a |\n"         \* two "|"

\* the texts made of table rows alone
TableTexts ==
    {Repeat(TableRow, n) \o Repeat(NarrowRow, m) : n \in 0..MaxRows, m \in 0..MaxRows}

\* the publications of a report: every key publication, with every canonical date
\* or with that of 800-218A alone
KeyLines == {
    "SP 800-218A (2024-07-26), SP 800-218 (2022-02-04), SP 800-171, SP 800-204D (2024-02-01)\n",
    "SP 800-218A (2024-07-26), SP 800-218, SP 800-171, SP 800-204D\n" }

\* whole reports: the six headings, the key publications, at most one token more,
\* and one table
ReportTexts ==
    {Headings(AllSections, {}, 1) \o keys \o body \o "\n" \o Repeat(TableRow, n) :
        keys \in KeyLines, body \in TokenTexts(1), n \in 0..MaxRows}

Texts == BodyTexts \cup SectionTexts \cup TableTexts \cup ReportTexts

\* the files of the validator's runs: a report that passes, one with a warning,
\* one with errors, one with both, and the empty file
Files == {
    Headings(AllSections, {}, 1)
        \o "SP 800-218A (2024-07-26)\n800-171 800-204D\n" \o Repeat(TableRow, 3),
    Headings(AllSections, {}, 1)
        \o "SP 800-218A (2024-07-25)\n800-171 800-204D\n" \o Repeat(TableRow, 3),
    Headings(AllSections, {}, 1)
        \o "SP 800-218A (2024-07-26)\n800-171 800-204C\n" \o Repeat(TableRow, 6),
    Headings({1, 2}, {}, 1) \o "800-218A 800-171 800-204D\n",
    "800-204C 800-210\n" \o Repeat(TableRow, 6),
    "" }

\* validate_file calls on one object
MaxCalls == 2

-----------------------------------------------------------------------------
(* The validator: main of output_validator.py and validate_file, one step  *)
(* for each call validate_file makes.                                      *)

Self == [errors |-> errors, warnings |-> warnings, passed_checks |-> passed_checks]

Becomes(self) ==
    /\ errors' = self.errors
    /\ warnings' = self.warnings
    /\ passed_checks' = self.passed_checks

\* main without a path argument: the usage message and sys.exit(1)
MainUsage ==
    /\ pc = "main"
    /\ pc' = "exited"
    /\ exit_code' = 1
    /\ UNCHANGED <<errors, warnings, passed_checks, content, result, calls>>
    /\ UNCHANGED <<wvars, done>>

\* validator = NISTOutputValidator()
Construct ==
    /\ pc = "main"
    /\ errors' = <<>>
    /\ warnings' = <<>>
    /\ passed_checks' = <<>>
    /\ pc' = "constructed"
    /\ UNCHANGED <<content, result, exit_code, calls>>
    /\ UNCHANGED <<wvars, done>>

\* validate_file reads a file of files: on a new object, or on one that has
\* validated a file before
ValidateFileRead(files) ==
    /\ pc \in {"constructed", "returned"}
    /\ calls < MaxCalls
    /\ \E f \in files : content' = f
    /\ calls' = calls + 1
    /\ result' = None
    /\ pc' = "check_required_sections"
    /\ UNCHANGED <<errors, warnings, passed_checks, exit_code>>
    /\ done' = {}
    /\ UNCHANGED wvars

\* validate_file printing a report of the lists before the process ends
ValidateFileFaultReport ==
    /\ pc \in {"constructed", "returned"}
    /\ calls < MaxCalls
    /\ calls' = calls + 1
    /\ result' = generate_report(Self)
    /\ exit_code' = 1
    /\ pc' = "exited"
    /\ UNCHANGED <<errors, warnings, passed_checks, content>>
    /\ UNCHANGED <<wvars, done>>

\* validate_file cannot open or read the file: FileNotFoundError or another
\* exception, an error message and sys.exit(1) for both
ValidateFileFault ==
    /\ pc \in {"constructed", "returned"}
    /\ calls < MaxCalls
    /\ calls' = calls + 1
    /\ result' = None
    /\ exit_code' = 1
    /\ pc' = "exited"
    /\ UNCHANGED <<errors, warnings, passed_checks, content>>
    /\ UNCHANGED <<wvars, done>>

\* the six checks, and where the control is before each
CheckNames == {"check_required_sections", "check_publication_dates",
               "check_invalid_publications", "check_urls", "check_duplicate_tables",
               "check_publication_coverage"}

\* self._check_required_sections(content)
CheckRequiredSections ==
    /\ pc = "check_required_sections"
    /\ Becomes(check_required_sections(Self, content))
    /\ pc' = "check_publication_dates"
    /\ UNCHANGED <<content, result, exit_code, calls>>
    /\ done' = done \cup {"check_required_sections"}
    /\ UNCHANGED wvars

\* self._check_publication_dates(content)
CheckPublicationDates ==
    /\ pc = "check_publication_dates"
    /\ Becomes(check_publication_dates(Self, content))
    /\ pc' = "check_invalid_publications"
    /\ UNCHANGED <<content, result, exit_code, calls>>
    /\ done' = done \cup {"check_publication_dates"}
    /\ UNCHANGED wvars

\* self._check_invalid_publications(content)
CheckInvalidPublications ==
    /\ pc = "check_invalid_publications"
    /\ Becomes(check_invalid_publications(Self, content))
    /\ pc' = "check_urls"
    /\ UNCHANGED <<content, result, exit_code, calls>>
    /\ done' = done \cup {"check_invalid_publications"}
    /\ UNCHANGED wvars

\* self._check_urls(content) ending the process when there are errors
CheckUrlsAbortOnErrors ==
    /\ pc = "check_urls"
    /\ IF errors = <<>>
       THEN /\ Becomes(check_urls(Self, content))
            /\ pc' = "check_duplicate_tables"
            /\ done' = done \cup {"check_urls"}
            /\ UNCHANGED exit_code
       ELSE /\ pc' = "exited"
            /\ exit_code' = 1
            /\ UNCHANGED <<errors, warnings, passed_checks, done>>
    /\ UNCHANGED <<content, result, calls>>
    /\ UNCHANGED wvars

\* self._check_urls(content)
CheckUrls ==
    /\ pc = "check_urls"
    /\ Becomes(check_urls(Self, content))
    /\ pc' = "check_duplicate_tables"
    /\ UNCHANGED <<content, result, exit_code, calls>>
    /\ done' = done \cup {"check_urls"}
    /\ UNCHANGED wvars

\* self._check_duplicate_tables(content)
CheckDuplicateTables ==
    /\ pc = "check_duplicate_tables"
    /\ Becomes(check_duplicate_tables(Self, content))
    /\ pc' = "check_publication_coverage"
    /\ UNCHANGED <<content, result, exit_code, calls>>
    /\ done' = done \cup {"check_duplicate_tables"}
    /\ UNCHANGED wvars

\* self._check_publication_coverage(content)
CheckPublicationCoverage ==
    /\ pc = "check_publication_coverage"
    /\ Becomes(check_publication_coverage(Self, content))
    /\ pc' = "generate_report"
    /\ UNCHANGED <<content, result, exit_code, calls>>
    /\ done' = done \cup {"check_publication_coverage"}
    /\ UNCHANGED wvars

\* return self._generate_report()
GenerateReport ==
    /\ pc = "generate_report"
    /\ result' = generate_report(Self)
    /\ pc' = "returned"
    /\ UNCHANGED <<errors, warnings, passed_checks, content, exit_code, calls>>
    /\ UNCHANGED <<wvars, done>>

\* main exiting with 0 whatever the status
MainExitZero ==
    /\ pc = "returned"
    /\ exit_code' = 0
    /\ pc' = "exited"
    /\ UNCHANGED <<errors, warnings, passed_checks, content, result, calls>>
    /\ UNCHANGED <<wvars, done>>

\* main: sys.exit(1) if the status is "failed", sys.exit(0) otherwise
MainExit ==
    /\ pc = "returned"
    /\ exit_code' = IF result.status = "failed" THEN 1 ELSE 0
    /\ pc' = "exited"
    /\ UNCHANGED <<errors, warnings, passed_checks, content, result, calls>>
    /\ UNCHANGED <<wvars, done>>

Checks ==
    \/ CheckRequiredSections
    \/ CheckPublicationDates
    \/ CheckInvalidPublications
    \/ CheckUrls
    \/ CheckDuplicateTables
    \/ CheckPublicationCoverage
    \/ GenerateReport

\* main.py does not run
WorkflowNotRun ==
    /\ wpc = "not_run"
    /\ config = None
    /\ articles = <<>>
    /\ summary = None
    /\ local_file = None
    /\ repo = None
    /\ outputs = <<>>
    /\ summary_content = None
    /\ workflow_result = None
    /\ validated = {}

\* The validator's process, and an object that is used for several files.
Init ==
    /\ errors = <<>>
    /\ warnings = <<>>
    /\ passed_checks = <<>>
    /\ content = ""
    /\ pc = "main"
    /\ result = None
    /\ exit_code = None
    /\ calls = 0
    /\ done = {}
    /\ WorkflowNotRun

Next ==
    \/ MainUsage
    \/ Construct
    \/ ValidateFileRead(Files)
    \/ ValidateFileFault
    \/ Checks
    \/ MainExit

Spec == Init /\ [][Next]_vars

\* One run of validate_file on a new object, for every text of Texts.
InitChecks ==
    /\ errors = <<>>
    /\ warnings = <<>>
    /\ passed_checks = <<>>
    /\ content \in Texts
    /\ pc = "check_required_sections"
    /\ result = None
    /\ exit_code = None
    /\ calls = 1
    /\ done = {}
    /\ WorkflowNotRun

NextChecks == Checks

SpecChecks == InitChecks /\ [][NextChecks]_vars

-----------------------------------------------------------------------------
(* validate_file with its six calls made in any order.                     *)

\* short reports with findings of every check in every list: one heading, a
\* publication, a date, a URL and a table of MaxRows rows; and the empty text
OrderTexts ==
    {Headings({1}, {}, 1) \o mention \o " " \o date \o " " \o url \o "\n"
        \o Repeat(TableRow, MaxRows) :
        mention \in {"800-218A", "800-210"},
        date \in {"2024-07-26", "2024-07-25"},
        url \in {"https://csrc.nist.gov/pubs/sp/800/218/final ",
                 "https://csrc.nist.gov/pubs/sp/800/210/ "}}
    \cup {""}

\* the call self._<name>(content)
apply_check(name, self, text) ==
    CASE name = "check_required_sections"    -> check_required_sections(self, text)
      [] name = "check_publication_dates"    -> check_publication_dates(self, text)
      [] name = "check_invalid_publications" -> check_invalid_publications(self, text)
      [] name = "check_urls"                 -> check_urls(self, text)
      [] name = "check_duplicate_tables"     -> check_duplicate_tables(self, text)
      [] name = "check_publication_coverage" -> check_publication_coverage(self, text)

\* one of the six calls that has not been made yet
CallCheck(name) ==
    /\ pc = "checks"
    /\ name \notin done
    /\ Becomes(apply_check(name, Self, content))
    /\ done' = done \cup {name}
    /\ pc' = IF done' = CheckNames THEN "generate_report" ELSE "checks"
    /\ UNCHANGED <<content, result, exit_code, calls>>
    /\ UNCHANGED wvars

InitOrder ==
    /\ errors = <<>>
    /\ warnings = <<>>
    /\ passed_checks = <<>>
    /\ content \in OrderTexts
    /\ pc = "checks"
    /\ result = None
    /\ exit_code = None
    /\ calls = 1
    /\ done = {}
    /\ WorkflowNotRun

NextOrder ==
    \/ \E name \in CheckNames : CallCheck(name)
    \/ GenerateReport

SpecOrder == InitOrder /\ [][NextOrder]_vars

-----------------------------------------------------------------------------
(* The workflow: main of main.py, the catalog of search_tool.py, the       *)
(* agent's generate_summary and the publishing client's                    *)
(* create_pull_request.                                                    *)

\* Config.MAX_ARTICLES
MAX_ARTICLES == 10

\* nist_publications of search_nist_updates: the fields the workflow reads
nist_publications == <<
    [id |-> "800-218A", date |-> "2024-07-26", version |-> "Final",
     title |-> "NIST SP 800-218A: Secure Software Development Framework (SSDF) Community Profile for Generative AI",
     url |-> "https://csrc.nist.gov/pubs/sp/800/218/a/final"],
    [id |-> "800-171r3", date |-> "2024-05-15", version |-> "Final",
     title |-> "NIST SP 800-171 Rev. 3: Protecting Controlled Unclassified Information in Nonfederal Systems and Organizations",
     url |-> "https://csrc.nist.gov/pubs/sp/800/171/r3/final"],
    [id |-> "csf-2.0", date |-> "2024-02-26", version |-> "Final",
     title |-> "NIST Cybersecurity Framework 2.0",
     url |-> "https://csrc.nist.gov/pubs/sp/800/221/final"],
    [id |-> "800-204D", date |-> "2024-02-01", version |-> "Final",
     title |-> "NIST SP 800-204D: Strategies for the Integration of Software Supply Chain Security in DevSecOps CI/CD Pipelines",
     url |-> "https://csrc.nist.gov/pubs/sp/800/204/d/final"],
    [id |-> "800-218", date |-> "2022-02-04", version |-> "Final",
     title |-> "NIST SP 800-218: Secure Software Development Framework (SSDF) Version 1.1",
     url |-> "https://csrc.nist.gov/pubs/sp/800/218/final"],
    [id |-> "800-161r1", date |-> "2022-05-13", version |-> "Final",
     title |-> "NIST SP 800-161 Rev. 1: Cybersecurity Supply Chain Risk Management Practices for Systems and Organizations",
     url |-> "https://csrc.nist.gov/pubs/sp/800/161/r1/final"],
    [id |-> "800-215", date |-> "2022-11-17", version |-> "Final",
     title |-> "NIST SP 800-215: Guide to a Secure Enterprise Network Landscape",
     url |-> "https://csrc.nist.gov/pubs/sp/800/215/final"],
    [id |-> "800-53r5", date |-> "2020-09-23", version |-> "Final",
     title |-> "NIST SP 800-53 Rev. 5: Security and Privacy Controls for Information Systems and Organizations",
     url |-> "https://csrc.nist.gov/pubs/sp/800/53/r5/final"],
    [id |-> "800-210", date |-> "2020-07-31", version |-> "Final",
     title |-> "NIST SP 800-210: General Access Control Guidance for Cloud Systems",
     url |-> "https://csrc.nist.gov/pubs/sp/800/210/final"],
    [id |-> "800-190", date |-> "2017-09-01", version |-> "Final",
     title |-> "NIST SP 800-190: Application Container Security Guide",
     url |-> "https://csrc.nist.gov/pubs/sp/800/190/final"] >>

\* the characters of a date, in the order of their code points
DateChars == "-0123456789"
Ord(ch) == CHOOSE k \in 1..Len(DateChars) : Char(DateChars, k) = ch

\* a < b, for two str of those characters
RECURSIVE StrLess(_, _)
StrLess(a, b) ==
    IF b = "" THEN FALSE
    ELSE IF a = "" THEN TRUE
    ELSE IF Char(a, 1) = Char(b, 1)
         THEN StrLess(SubSeq(a, 2, Len(a)), SubSeq(b, 2, Len(b)))
         ELSE Ord(Char(a, 1)) < Ord(Char(b, 1))

\* sorted(pubs, key=lambda x: x['date'], reverse=True): the sort is stable, so a
\* publication stays before the later ones of the same date
RECURSIVE insert_by_date(_, _)
insert_by_date(x, pubs) ==
    IF pubs = <<>> \/ ~StrLess(x.date, pubs[1].date) THEN <<x>> \o pubs
    ELSE <<pubs[1]>> \o insert_by_date(x, Tail(pubs))

RECURSIVE sorted_by_date(_)
sorted_by_date(pubs) ==
    IF pubs = <<>> THEN <<>>
    ELSE insert_by_date(Head(pubs), sorted_by_date(Tail(pubs)))

\* search_nist_updates
search_nist_updates(max_results) ==
    LET sorted_pubs == sorted_by_date(nist_publications)
    IN  SubSeq(sorted_pubs, 1, Min({max_results, Len(sorted_pubs)}))

\* replacements of _validate_and_fix_summary, in the order of the dict
replacements == <<
    <<"SP 800-204C", "SP 800-204D">>,
    <<"800-204C", "800-204D">>,
    <<"/pubs/sp/800/210/", "/pubs/sp/800/210/final">> >>

RECURSIVE validate_and_fix_summary_from(_, _)
validate_and_fix_summary_from(text, k) ==
    IF k > Len(replacements) THEN text
    ELSE LET old == replacements[k][1]
             new == replacements[k][2]
         IN  validate_and_fix_summary_from(
                 IF Contains(text, old) THEN replace(text, old, new) ELSE text, k + 1)

\* _validate_and_fix_summary
validate_and_fix_summary(text) == validate_and_fix_summary_from(text, 1)

\* the slice [:6] of _generate_fallback_summary
FallbackArticles == 6

\* _generate_fallback_summary writing the third required heading in full
generate_fallback_summary_full_impact(arts) ==
    LET sorted_arts == sorted_by_date(arts)
        top == SubSeq(sorted_arts, 1, Min({FallbackArticles, Len(sorted_arts)}))
        articles_list ==
            join("\n", [k \in 1..Len(top) |->
                           "- " \o top[k].title \o " (" \o top[k].date \o ")"])
    IN  "# NIST SP 800 Compliance Update\n\n"
        \o "## Executive Summary\n"
        \o "## Latest Updates Discovered\n"
        \o articles_list \o "\n\n"
        \o "## Impact on Software Development Organizations\n"
        \o "## References\n"

\* _generate_fallback_summary
generate_fallback_summary(arts) ==
    LET sorted_arts == sorted_by_date(arts)
        top == SubSeq(sorted_arts, 1, Min({FallbackArticles, Len(sorted_arts)}))
        articles_list ==
            join("\n", [k \in 1..Len(top) |->
                           "- " \o top[k].title \o " (" \o top[k].date \o ")"])
    IN  "# NIST SP 800 Compliance Update\n\n"
        \o "## Executive Summary\n"
        \o "Recent NIST publications enhance security requirements for software development organizations.\n\n"
        \o "## Latest Updates Discovered\n"
        \o articles_list \o "\n\n"
        \o "## Impact\n"
        \o "Organizations must align SDLC practices with latest NIST guidance.\n\n"
        \o "## References\n"
        \o "See verified publications in source data.\n\n"
        \o "Note: This is a fallback summary. Full generation encountered errors.\n"

\* a text the generation call can return that the validator passes
GoodResponse ==
    Headings(AllSections, {}, 1)
    \o "SP 800-218A (2024-07-26), SP 800-218 (2022-02-04), SP 800-171, SP 800-204D (2024-02-01)\n"
    \o "https://csrc.nist.gov/pubs/sp/800/218/final \n"
    \o Repeat(TableRow, 3)

\* response.choices[0].message.content: texts the generation call can return: the
\* good one, one that names 800-204C, one with the 800-210 URL without "final",
\* one that names 800-210, one with a wrong date, one with two headings
Responses == {
    GoodResponse,
    replace(GoodResponse, "800-204D", "800-204C"),
    GoodResponse \o "https://csrc.nist.gov/pubs/sp/800/210/ \n",
    GoodResponse \o "SP 800-210 (2020-07-31)\n",
    replace(GoodResponse, "2024-07-26", "2024-07-25"),
    Headings({1, 2}, {}, 1) \o "SP 800-218A\n" }

\* the calls of create_pull_request that can raise, "none" if none does
Faults == {"none", "get_repo", "get_git_ref", "create_git_ref", "get_contents",
           "create_file", "create_pull"}

\* the path of a file under outputs (its name holds the time of the run)
filepath == "outputs/nist-summary.md"

\* Step 0: Config.validate raises without OPENAI_API_KEY and main returns; the
\* tools are constructed, github_tool only with GITHUB_TOKEN
ConfigValidate ==
    /\ wpc = "main"
    /\ wpc' = IF config.OPENAI_API_KEY THEN "search" ELSE "returned"
    /\ UNCHANGED <<config, articles, summary, local_file, repo, outputs,
                   summary_content, workflow_result, validated>>
    /\ UNCHANGED <<vvars, done>>

\* Step 1: articles = search_tool.search_nist_updates(max_results=Config.MAX_ARTICLES)
SearchNistUpdates ==
    /\ wpc = "search"
    /\ articles' = search_nist_updates(MAX_ARTICLES)
    /\ wpc' = "extract"
    /\ UNCHANGED <<config, summary, local_file, repo, outputs, summary_content,
                   workflow_result, validated>>
    /\ UNCHANGED <<vvars, done>>

\* Step 2: get_article_content and extract_content for each article; both catch
\* their exceptions, and the content goes to the prompts only
ExtractContent ==
    /\ wpc = "extract"
    /\ wpc' = "filter"
    /\ UNCHANGED <<config, articles, summary, local_file, repo, outputs,
                   summary_content, workflow_result, validated>>
    /\ UNCHANGED <<vvars, done>>

\* Step 3: agent.filter_for_software_dev(articles), which catches its exceptions;
\* filtered_content goes to the prompts only
FilterForSoftwareDev ==
    /\ wpc = "filter"
    /\ wpc' = "map"
    /\ UNCHANGED <<config, articles, summary, local_file, repo, outputs,
                   summary_content, workflow_result, validated>>
    /\ UNCHANGED <<vvars, done>>

\* Step 4: agent.map_to_controls(filtered_content), which catches its exceptions;
\* mappings goes to the prompt only
MapToControls ==
    /\ wpc = "map"
    /\ wpc' = "generate_summary"
    /\ UNCHANGED <<config, articles, summary, local_file, repo, outputs,
                   summary_content, workflow_result, validated>>
    /\ UNCHANGED <<vvars, done>>

\* Step 5: agent.generate_summary: the response of the generation call, fixed by
\* _validate_and_fix_summary
GenerateSummary ==
    /\ wpc = "generate_summary"
    /\ \E response \in Responses : summary' = validate_and_fix_summary(response)
    /\ wpc' = "save"
    /\ UNCHANGED <<config, articles, local_file, repo, outputs, summary_content,
                   workflow_result, validated>>
    /\ UNCHANGED <<vvars, done>>

\* Step 5 with the exception of the generation call leaving generate_summary
GenerateSummaryRaise ==
    /\ wpc = "generate_summary"
    /\ wpc' = "fatal"
    /\ UNCHANGED <<config, articles, summary, local_file, repo, outputs,
                   summary_content, workflow_result, validated>>
    /\ UNCHANGED <<vvars, done>>

\* Step 5: agent.generate_summary when the generation call raises
GenerateSummaryFallback ==
    /\ wpc = "generate_summary"
    /\ summary' = generate_fallback_summary(articles)
    /\ wpc' = "save"
    /\ UNCHANGED <<config, articles, local_file, repo, outputs, summary_content,
                   workflow_result, validated>>
    /\ UNCHANGED <<vvars, done>>

\* main writes summary to local_file
SaveLocalFile ==
    /\ wpc = "save"
    /\ local_file' = summary
    /\ wpc' = "publish"
    /\ UNCHANGED <<config, articles, summary, repo, outputs, summary_content,
                   workflow_result, validated>>
    /\ UNCHANGED <<vvars, done>>

\* makedirs, open or write raises: the handler of __main__ and sys.exit(1)
SaveLocalFileFault ==
    /\ wpc = "save"
    /\ wpc' = "fatal"
    /\ UNCHANGED <<config, articles, summary, local_file, repo, outputs,
                   summary_content, workflow_result, validated>>
    /\ UNCHANGED <<vvars, done>>

\* Step 6: result = github_tool.create_pull_request(summary).  The branch exists
\* once create_git_ref returned, the file once create_file (or update_file) did,
\* the pull request once create_pull did; after an exception _save_locally
\* writes the text under outputs, or fails to
CreatePullRequest ==
    /\ wpc = "publish"
    /\ config.GITHUB_TOKEN
    /\ \E fault \in Faults, saved \in BOOLEAN :
          /\ summary_content' = summary
          /\ repo' = [branch |-> fault \notin {"get_repo", "get_git_ref", "create_git_ref"},
                      file   |-> IF fault \in {"none", "create_pull"}
                                 THEN <<summary>> ELSE <<>>,
                      pull   |-> fault = "none"]
          /\ outputs' = IF fault # "none" /\ saved THEN <<summary>> ELSE outputs
          /\ workflow_result' = IF fault = "none" THEN "pr.html_url"
                                ELSE IF saved THEN filepath
                                ELSE "Failed to save"
    /\ wpc' = "completed"
    /\ UNCHANGED <<config, articles, summary, local_file, validated>>
    /\ UNCHANGED <<vvars, done>>

\* Step 6 without github_tool: result = local_file
SkipPublishing ==
    /\ wpc = "publish"
    /\ ~config.GITHUB_TOKEN
    /\ workflow_result' = filepath
    /\ wpc' = "completed"
    /\ UNCHANGED <<config, articles, summary, local_file, repo, outputs,
                   summary_content, validated>>
    /\ UNCHANGED <<vvars, done>>

\* the validator's executable run on local_file, by whoever reads the closing
\* message of main: a process of its own, at any time once the file is written
ValidateLocalFile ==
    /\ wpc \in {"publish", "completed"}
    /\ validated' = validated \cup
           {[text   |-> local_file,
             status |-> generate_report(run_checks(NewValidator, local_file)).status]}
    /\ UNCHANGED <<wpc, config, articles, summary, local_file, repo, outputs,
                   summary_content, workflow_result>>
    /\ UNCHANGED <<vvars, done>>

\* One run of main.py, for every setting of the two keys of the environment.
InitWorkflow ==
    /\ errors = <<>>
    /\ warnings = <<>>
    /\ passed_checks = <<>>
    /\ content = ""
    /\ pc = "main"
    /\ result = None
    /\ exit_code = None
    /\ calls = 0
    /\ wpc = "main"
    /\ config \in [OPENAI_API_KEY : BOOLEAN, GITHUB_TOKEN : BOOLEAN]
    /\ articles = <<>>
    /\ summary = None
    /\ local_file = None
    /\ repo = [branch |-> FALSE, file |-> <<>>, pull |-> FALSE]
    /\ outputs = <<>>
    /\ summary_content = None
    /\ workflow_result = None
    /\ validated = {}
    /\ done = {}

NextWorkflow ==
    \/ ConfigValidate
    \/ SearchNistUpdates
    \/ ExtractContent
    \/ FilterForSoftwareDev
    \/ MapToControls
    \/ GenerateSummary
    \/ GenerateSummaryFallback
    \/ SaveLocalFile
    \/ SaveLocalFileFault
    \/ CreatePullRequest
    \/ SkipPublishing
    \/ ValidateLocalFile

SpecWorkflow == InitWorkflow /\ [][NextWorkflow]_vars

-----------------------------------------------------------------------------
(* Properties.                                                             *)

Range(seq) == {seq[k] : k \in 1..Len(seq)}

\* C1: whatever the three lists hold, the status validate_file returns is "failed"
\* if and only if errors is not empty, otherwise "passed_with_warnings" if and only
\* if warnings is not empty, otherwise "passed"; passed_checks has no part in it.
VerdictFromBuckets ==
    result # None =>
        /\ result.status \in {"failed", "passed_with_warnings", "passed"}
        /\ result.status = "failed" <=> errors # <<>>
        /\ result.status = "passed_with_warnings" <=> (errors = <<>> /\ warnings # <<>>)
        /\ result.status = "passed" <=> (errors = <<>> /\ warnings = <<>>)

\* a second call that returns with errors and warnings both in the lists
VerdictFromBucketsWitness ==
    /\ pc = "returned"
    /\ calls = 2
    /\ result.status = "failed"
    /\ warnings # <<>>
    /\ passed_checks # <<>>

\* C3: the dict the last validate_file call returns, and the sizes of the three
\* lists, are those of validating the last file alone on a new object.
LastRunAlone ==
    pc = "returned" =>
        LET alone == run_checks(NewValidator, content)
        IN  /\ result = generate_report(alone)
            /\ Len(errors) = Len(alone.errors)
            /\ Len(warnings) = Len(alone.warnings)
            /\ Len(passed_checks) = Len(alone.passed_checks)

\* C9: the section check emits one finding for each of the six headings, in the
\* order of the list: "Section found" among the passes if the heading occurs in the
\* text as written, "Missing required section" among the errors if it does not; so
\* as many errors as missing headings, and no warning.
SectionFindings ==
    pc = "check_publication_dates" =>
        LET found   == SelectSeq(required_sections, LAMBDA h : Contains(content, h))
            missing == SelectSeq(required_sections, LAMBDA h : ~Contains(content, h))
        IN  /\ passed_checks = [k \in 1..Len(found) |-> "Section found: " \o found[k]]
            /\ errors = [k \in 1..Len(missing) |->
                            "Missing required section: " \o missing[k]]
            /\ warnings = <<>>
            /\ Len(passed_checks) + Len(errors) = 6

\* a heading written in lower case is reported missing, beside headings found
SectionFindingsWitness ==
    /\ pc = "check_publication_dates"
    /\ Contains(content, "## executive summary")
    /\ "Missing required section: Executive Summary" \in Range(errors)
    /\ Contains(content, "## Quick Reference Table")
    /\ "Section found: Quick Reference Table" \in Range(passed_checks)

\* C10: the invalid-reference check emits one finding for each identifier of
\* invalid_pubs, in its order: an error if the identifier occurs anywhere in the
\* text, whatever surrounds it, a pass if not; and a text that holds an invalid
\* identifier gets the status "failed".
InvalidReferenceFindings ==
    /\ [][pc = "check_invalid_publications" =>
            LET bad  == SelectSeq(invalid_pubs, LAMBDA id : Contains(content, id))
                good == SelectSeq(invalid_pubs, LAMBDA id : ~Contains(content, id))
            IN  /\ errors' = errors \o
                      [k \in 1..Len(bad) |-> "Invalid publication referenced: " \o bad[k]]
                /\ passed_checks' = passed_checks \o
                      [k \in 1..Len(good) |->
                          "No reference to invalid publication: " \o good[k]]
                /\ warnings' = warnings
                /\ Len(bad) + Len(good) = 2]_vars
    /\ [](pc = "returned" /\ (\E k \in 1..Len(invalid_pubs) : Contains(content, invalid_pubs[k]))
            => result.status = "failed")

\* an invalid identifier with a letter right after it
InvalidReferenceWitness ==
    /\ pc = "returned"
    /\ Contains(content, "800-210SP 800 218A")
    /\ "Invalid publication referenced: 800-210" \in Range(errors)
    /\ "No reference to invalid publication: 800-204C" \in Range(passed_checks)
    /\ result.status = "failed"

\* C8: the coverage check emits one finding: a pass if every key publication
\* occurs in the text, otherwise one warning that lists the absent ones, in the
\* order of key_pubs, and no others.
CoverageFinding ==
    [][pc = "check_publication_coverage" =>
          LET absent == SelectSeq(key_pubs, LAMBDA id : ~Contains(content, id))
          IN  /\ errors' = errors
              /\ IF absent = <<>>
                 THEN /\ passed_checks' =
                            Append(passed_checks, "All key publications referenced")
                      /\ warnings' = warnings
                 ELSE /\ warnings' =
                            Append(warnings, "Key publications not mentioned: "
                                              \o join(", ", absent))
                      /\ passed_checks' = passed_checks]_vars

\* three of the four key publications are in the text, and the warning lists the
\* fourth alone
CoverageFindingWitness ==
    /\ pc = "generate_report"
    /\ Contains(content, "800-218A") /\ Contains(content, "800-218")
    /\ Contains(content, "800-204D") /\ ~Contains(content, "800-171")
    /\ warnings # <<>>
    /\ warnings[Len(warnings)] = "Key publications not mentioned: 800-171"

\* the lines of a text, and the number of "|" of a line
Lines(text) == split(text, "\n")
PipeCount(line) == Cardinality({i \in 1..Len(line) : Char(line, i) = "|"})
LinesWithPipes(text, n) ==
    Cardinality({k \in 1..Len(Lines(text)) : PipeCount(Lines(text)[k]) >= n})

\* the finding of the duplicate-table check, were the table rows the lines with
\* at least n "|"
TableFindingCounting(n) ==
    pc = "check_duplicate_tables" =>
        LET rows == LinesWithPipes(content, n)
        IN  /\ errors' = errors
            /\ IF rows > 5
               THEN /\ warnings' =
                          Append(warnings, "Multiple tables detected (" \o ToString(rows)
                                            \o " rows). Verify no duplicates.")
                    /\ passed_checks' = passed_checks
               ELSE /\ passed_checks' =
                          Append(passed_checks, "Single reference table (no duplicates)")
                    /\ warnings' = warnings

\* C7, as amended: the duplicate-table check counts the lines that hold three or
\* more "|" and emits one finding: a warning if the count is greater than 5,
\* otherwise a pass; never an error.
DuplicateTableFinding == [][TableFindingCounting(3)]_vars

\* six lines of three "|" beside lines of two: a warning that counts six rows
DuplicateTableFindingWitness ==
    /\ pc = "check_publication_coverage"
    /\ LinesWithPipes(content, 3) = 6
    /\ LinesWithPipes(content, 2) > 6
    /\ warnings # <<>>
    /\ warnings[Len(warnings)] = "Multiple tables detected (6 rows). Verify no duplicates."

\* C7, as stated: the check counts the lines that hold two or more "|".
DuplicateTableFindingTwoPipes == [][TableFindingCounting(2)]_vars

\* C2, as stated: create_pull_request is called on the summary only after a run
\* of the validator on that summary, and its status was not "failed".
PublicationGated ==
    [][(wpc = "publish" /\ wpc' = "completed" /\ config.GITHUB_TOKEN)
          => \E v \in validated : v.text = summary /\ v.status # "failed"]_vars

\* the template .../pubs/sp/<digits>/<segment>/final at the start of url, where
\* <segment> is one path component or two (a sub-revision)
CanonicalTemplate(url) ==
    LET n == Len(CorrectPrefix)
        parts == IF Len(url) >= n /\ SubSeq(url, 1, n) = CorrectPrefix
                 THEN split(SubSeq(url, n + 1, Len(url)), "/") ELSE <<>>
        Final(part) == Len(part) >= 5 /\ SubSeq(part, 1, 5) = "final"
    IN  /\ Len(parts) >= 3
        /\ parts[1] # ""
        /\ \A k \in 1..Len(parts[1]) : Char(parts[1], k) \in Digit
        /\ parts[2] # ""
        /\ \/ Final(parts[3])
           \/ Len(parts) >= 4 /\ parts[3] # "" /\ Final(parts[4])

\* the messages of the URLs of urls that are (well = TRUE) or are not well-formed
RECURSIVE UrlFindings(_, _)
UrlFindings(urls, well) ==
    IF urls = <<>> THEN <<>>
    ELSE (IF CanonicalTemplate(Head(urls)) = well
          THEN <<(IF well THEN "Correct URL format: " ELSE "Check URL format: ")
                   \o Head(urls)>>
          ELSE <<>>)
         \o UrlFindings(Tail(urls), well)

\* C5, as stated: the URL check emits one finding for each extracted URL: a pass
\* if the URL matches the template whose segment may hold a sub-revision
\* component, a warning otherwise; never an error.
UrlFindingsByTemplate ==
    [][pc = "check_urls" =>
          LET urls == findall_urls(content, 1)
          IN  /\ passed_checks' = passed_checks \o UrlFindings(urls, TRUE)
              /\ warnings' = warnings \o UrlFindings(urls, FALSE)
              /\ errors' = errors]_vars

\* the matches of the two forms of a publication in a text, and the leftmost
FormMatches(text, pub_id) ==
    SelectSeq([j \in 1..Len(patterns(pub_id)) |-> re_search(patterns(pub_id)[j], text)],
              LAMBDA m : m # None)
FirstMatch(text, pub_id) ==
    LET ms == FormMatches(text, pub_id)
    IN  CHOOSE m \in Range(ms) : \A o \in Range(ms) : m.start <= o.start

\* the dates of the window of 200 characters around the first match
WindowDates(text, pub_id) ==
    LET m == FirstMatch(text, pub_id)
    IN  findall_dates(SubSeq(text, Max({0, m.start - 200}) + 1,
                                   Min({Len(text), m.end + 200})), 1)

\* the one finding of the date check for record k: "pass", "warning" or "none"
DateFinding(text, k) ==
    IF FormMatches(text, verified_pubs[k].pub_id) = <<>> THEN "none"
    ELSE LET dates == WindowDates(text, verified_pubs[k].pub_id)
         IN  IF verified_pubs[k].date \in Range(dates) THEN "pass"
             ELSE IF dates # <<>> THEN "warning" ELSE "none"

\* the messages of the records from k on whose finding is kind
RECURSIVE DateFindings(_, _, _)
DateFindings(text, kind, k) ==
    IF k > Len(verified_pubs) THEN <<>>
    ELSE (IF DateFinding(text, k) # kind THEN <<>>
          ELSE IF kind = "pass"
          THEN <<"Correct date for " \o verified_pubs[k].pub_id \o ": "
                   \o verified_pubs[k].date>>
          ELSE <<"Possible incorrect date for " \o verified_pubs[k].pub_id
                   \o ". Expected: " \o verified_pubs[k].date \o ", Found: "
                   \o WindowDates(text, verified_pubs[k].pub_id)[1]>>)
         \o DateFindings(text, kind, k + 1)

\* C6, as stated: for each record the date check emits nothing if the publication
\* is not mentioned, and otherwise what the window of the first match gives: a
\* pass if it holds the canonical date, a warning naming the canonical date and
\* the first date found if it holds other dates only, nothing if it holds no date.
DateFindingPerRecord ==
    [][pc = "check_publication_dates" =>
          /\ passed_checks' = passed_checks \o DateFindings(content, "pass", 1)
          /\ warnings' = warnings \o DateFindings(content, "warning", 1)
          /\ errors' = errors]_vars

\* what the amended C4 asks of a report
EndToEndPremise(text) ==
    /\ \A k \in 1..Len(required_sections) : Contains(text, required_sections[k])
    /\ \A k \in 1..Len(invalid_pubs) : ~Contains(text, invalid_pubs[k])
    /\ \A k \in 1..Len(key_pubs) : Contains(text, key_pubs[k])
    /\ LET urls == findall_urls(text, 1)
       IN  urls # <<>> /\ \A k \in 1..Len(urls) : match_correct_pattern(urls[k])
    /\ LinesWithPipes(text, 3) <= 5
    /\ \A k \in 1..Len(verified_pubs) :
          \A j \in 1..Len(patterns(verified_pubs[k].pub_id)) :
             LET pattern == patterns(verified_pubs[k].pub_id)[j]
                 dates == findall_dates(get_context(text, pattern, ContextChars), 1)
             IN  \/ re_search(pattern, text) = None
                 \/ dates = <<>>
                 \/ verified_pubs[k].date \in Range(dates)

\* C4, as amended: a run on a new validator returns "passed", with no error and no
\* warning, for a report that holds the six headings, no identifier of the
\* invalid list, the four key ids, at least one csrc.nist.gov URL and only URLs
\* of the form .../pubs/sp/<digits>/<one component>/final, at most 5 lines with
\* three or more "|", and, around the first match of each form of each record
\* that matches, the record's canonical date or no date at all.
EndToEndPassed ==
    (pc = "returned" /\ EndToEndPremise(content)) =>
        /\ result = [status |-> "passed"]
        /\ errors = <<>>
        /\ warnings = <<>>

\* a report with a well-formed URL and a table of five rows has passed
EndToEndPassedWitness ==
    /\ pc = "returned"
    /\ EndToEndPremise(content)
    /\ LinesWithPipes(content, 3) = 5
    /\ Contains(content, "2024-07-26")
    /\ result = [status |-> "passed"]
    /\ Len(passed_checks) > Len(required_sections)

\* C4, as stated: the six headings, 800-218A with 2024-07-26 in its window, no
\* invalid identifier, one well-formed URL, one table of 6 rows and the four key
\* ids give "passed" with no error and no warning.
EndToEndSixRows ==
    (/\ pc = "returned"
     /\ \A k \in 1..Len(required_sections) : Contains(content, required_sections[k])
     /\ re_search("800-218A", content) # None
     /\ "2024-07-26" \in Range(findall_dates(get_context(content, "800-218A", 200), 1))
     /\ \A k \in 1..Len(invalid_pubs) : ~Contains(content, invalid_pubs[k])
     /\ LET urls == findall_urls(content, 1)
        IN  Len(urls) = 1 /\ match_correct_pattern(urls[1])
     /\ LinesWithPipes(content, 2) = 6
     /\ \A k \in 1..Len(key_pubs) : Contains(content, key_pubs[k]))
    => /\ result = [status |-> "passed"]
       /\ errors = <<>>
       /\ warnings = <<>>

\* C11, as stated: the dict validate_file returns holds the status, the number of
\* errors and the number of warnings, whatever the status.
VerdictCarriesCounts ==
    pc = "returned" =>
        result = [status   |-> result.status,
                  errors   |-> Len(errors),
                  warnings |-> Len(warnings)]

\* a list of n findings
Findings(n) == [k \in 1..n |-> "finding"]

\* C12: the summary line shows passed/total, total being passed + warnings +
\* errors, and the rate passed / total * 100 to the nearest tenth, 0.0 for no
\* check at all; the rate is between 0.0 and 100.0, and 100.0 exactly when there
\* is a pass and neither warning nor error; 7 passes, 2 warnings and 1 error give
\* 10 checks and the rate 70.0.
SummaryLineRate ==
    /\ pc = "returned" =>
         LET passed == Len(passed_checks)
             total == Len(passed_checks) + Len(warnings) + Len(errors)
         IN  \E n \in 0..1000 :
                /\ summary_line(Self) =
                      "SUMMARY: " \o ToString(passed) \o "/" \o ToString(total)
                      \o " checks passed (" \o ToString(n \div 10) \o "."
                      \o ToString(n % 10) \o "%)"
                /\ total = 0 => n = 0
                /\ total > 0 => /\ 2 * (n * total - 1000 * passed) <= total
                                /\ 2 * (1000 * passed - n * total) <= total
                /\ n = 1000 <=> (passed > 0 /\ warnings = <<>> /\ errors = <<>>)
    /\ summary_line([passed_checks |-> Findings(7), warnings |-> Findings(2),
                     errors |-> Findings(1)])
          = "SUMMARY: 7/10 checks passed (70.0%)"
    /\ summary_line(NewValidator) = "SUMMARY: 0/0 checks passed (0.0%)"

\* a report after which the rate is rounded up: 3 passes of 11 checks, or 27.3
SummaryLineRateWitness ==
    /\ pc = "returned"
    /\ Len(passed_checks) = 3
    /\ Len(passed_checks) + Len(warnings) + Len(errors) = 11
    /\ summary_line(Self) = "SUMMARY: 3/11 checks passed (27.3%)"

\* C13: the process exits with 0 if and only if validate_file returned a dict
\* whose status is "passed" or "passed_with_warnings"; it exits with 1 for
\* "failed" and when the file cannot be opened or read.
ExitCodeFromVerdict ==
    pc = "exited" =>
        /\ exit_code \in {0, 1}
        /\ exit_code = 0 <=>
              (result # None /\ result.status \in {"passed", "passed_with_warnings"})

\* the process has exited with 1 after a report with errors
ExitCodeFromVerdictWitness ==
    /\ pc = "exited"
    /\ exit_code = 1
    /\ result # None
    /\ result.status = "failed"
    /\ errors # <<>>

\* C14: when the file cannot be opened or read (the call of validate_file ends the
\* process), no check has run: the lists are as before the call, no dict is
\* returned and the exit code is 1.
ReadFaultFatal ==
    [][(calls' = calls + 1 /\ pc' = "exited") =>
          /\ errors' = errors
          /\ warnings' = warnings
          /\ passed_checks' = passed_checks
          /\ result' = None
          /\ exit_code' = 1]_vars

\* the process has exited on a file it could not read, without any finding
ReadFaultFatalWitness ==
    /\ pc = "exited"
    /\ calls = 1
    /\ result = None
    /\ exit_code = 1
    /\ errors = <<>> /\ warnings = <<>> /\ passed_checks = <<>>

\* C15, as stated: create_pull_request returns the URL of the pull request it
\* created, or the path of a file under outputs to which it wrote the text.
PublishReturnsUrlOrPath ==
    (wpc = "completed" /\ config.GITHUB_TOKEN) =>
        \/ workflow_result = "pr.html_url" /\ repo.pull
        \/ workflow_result = filepath /\ outputs = <<summary_content>>

\* C17: once the file is read no finding stops the run, whatever the lists hold: a
\* step from a check is the call of that check, which leads to the next check or
\* to the report, never to the end of the process; and when validate_file
\* returns, the six checks have been called and the dict holds one of the three
\* statuses.
RunNeverAborts ==
    /\ [][(pc \in CheckNames \cup {"generate_report"}) =>
             /\ pc' \in CheckNames \cup {"generate_report", "returned"}
             /\ pc \in CheckNames => done' = done \cup {pc}
             /\ exit_code' = exit_code]_vars
    /\ [](pc = "returned" =>
            /\ done = CheckNames
            /\ result # None
            /\ result.status \in {"failed", "passed_with_warnings", "passed"})

\* the run on the empty text: six headings missing, no key publication, and a dict
RunNeverAbortsWitness ==
    /\ pc = "returned"
    /\ content = ""
    /\ Len(errors) = 6
    /\ warnings # <<>>
    /\ done = CheckNames
    /\ result.status = "failed"

\* seq is a prefix of other
IsPrefix(seq, other) ==
    Len(seq) <= Len(other) /\ SubSeq(other, 1, Len(seq)) = seq

\* C20: a check changes the three lists only, and only by appending: each list
\* before the check is a prefix of the list after it, so the number of findings
\* never decreases; the text, the returned dict, the exit code and the workflow
\* are left alone.
ChecksOnlyAppend ==
    [][(pc \in CheckNames) =>
          /\ UNCHANGED content /\ UNCHANGED result /\ UNCHANGED exit_code
          /\ UNCHANGED calls /\ UNCHANGED wvars
          /\ Len(errors') + Len(warnings') + Len(passed_checks')
                >= Len(errors) + Len(warnings) + Len(passed_checks)
          /\ IsPrefix(errors, errors')
          /\ IsPrefix(warnings, warnings')
          /\ IsPrefix(passed_checks, passed_checks')]_vars

\* the URL check has appended a warning to lists that all held findings
ChecksOnlyAppendWitness ==
    /\ pc = "check_duplicate_tables"
    /\ errors # <<>>
    /\ passed_checks # <<>>
    /\ Len(warnings) >= 2
    /\ Contains(warnings[Len(warnings)], "Check URL format: ")

\* C16: whatever the order of the six calls, validate_file returns the dict of the
\* run in the listed order, and each list holds as many findings as in that run.
OrderOnlyReorders ==
    pc = "returned" =>
        LET listed == run_checks(NewValidator, content)
        IN  /\ result = generate_report(listed)
            /\ Len(passed_checks) = Len(listed.passed_checks)
            /\ Len(warnings) = Len(listed.warnings)
            /\ Len(errors) = Len(listed.errors)

\* a run in another order has returned: its lists are not those of the listed order
OrderOnlyReordersWitness ==
    /\ pc = "returned"
    /\ done = CheckNames
    /\ content # ""
    /\ LET listed == run_checks(NewValidator, content)
       IN  /\ passed_checks # listed.passed_checks
           /\ warnings # listed.warnings
           /\ errors # listed.errors

\* the date check treats the same publications as mentioned, and reads the same
\* dates around them, when the letters of the text change case
MentionsIgnoreCase ==
    pc = "check_publication_dates" =>
        check_publication_dates(NewValidator, LowerText(content))
            = check_publication_dates(NewValidator, content)

\* the URL check extracts as many URLs, and finds as many of them well-formed,
\* when the letters of the text change case
UrlsIgnoreCase ==
    pc = "check_urls" =>
        LET as_written == check_urls(NewValidator, content)
            lowered    == check_urls(NewValidator, LowerText(content))
        IN  /\ Len(findall_urls(LowerText(content), 1)) = Len(findall_urls(content, 1))
            /\ Len(lowered.passed_checks) = Len(as_written.passed_checks)
            /\ Len(lowered.warnings) = Len(as_written.warnings)

\* C18: every regex match of the rule checks is case-insensitive: changing the case
\* of letters of the report changes neither the publications the date check treats
\* as mentioned nor the URLs the URL check extracts and classifies as well-formed.
RegexMatchesIgnoreCase == MentionsIgnoreCase /\ UrlsIgnoreCase

\* C19: a fault of the generation call never aborts the workflow: generate_summary
\* returns the fallback report built from the article list (or, without a fault,
\* the fixed response) and main goes on to write it; the file written is the
\* summary, and the publishing step follows it.
GenerationFaultNeverAborts ==
    /\ [][(wpc = "generate_summary") =>
             /\ wpc' = "save"
             /\ \/ summary' = generate_fallback_summary(articles)
                \/ \E response \in Responses :
                      summary' = validate_and_fix_summary(response)
             /\ articles' = articles]_vars
    /\ [][(wpc = "save" /\ wpc' # "fatal") =>
             /\ wpc' = "publish"
             /\ local_file' = summary
             /\ summary' = summary]_vars
    /\ [](wpc = "publish" => local_file = summary)

\* the fallback report has been written and the publishing step is reached
GenerationFaultNeverAbortsWitness ==
    /\ wpc = "publish"
    /\ summary = generate_fallback_summary(articles)
    /\ local_file = generate_fallback_summary(articles)
    /\ \A response \in Responses : summary # validate_and_fix_summary(response)

\* the number of entries of list that start with prefix
CountPrefixed(list, prefix) ==
    Cardinality({i \in 1..Len(list) : IsPrefix(prefix, list[i])})

\* the findings of the date check for record k in the lists of self
RecordDateFindings(self, k) ==
    CountPrefixed(self.passed_checks,
                  "Correct date for " \o verified_pubs[k].pub_id \o ": ")
    + CountPrefixed(self.warnings,
                    "Possible incorrect date for " \o verified_pubs[k].pub_id \o ". ")

\* C21: once the date check has run, the lists hold at most one of its findings
\* (one pass or one warning) for each record of the reference table, whatever the
\* text, and also when it mentions a publication in both of its forms.
OneDateFindingPerRecord ==
    pc = "check_invalid_publications" =>
        \A k \in 1..Len(verified_pubs) : RecordDateFindings(Self, k) <= 1

\* every 800-210 URL of text is the well-formed one, ending in "final"
WellFormed210(text) ==
    \A i \in Occurrences(text, "/pubs/sp/800/210/") :
        /\ i + Len("/pubs/sp/800/210/final") - 1 <= Len(text)
        /\ SubSeq(text, i, i + Len("/pubs/sp/800/210/final") - 1) = "/pubs/sp/800/210/final"

\* C22: the fix is idempotent and changes incorrect references only: the summary
\* that generate_summary returned is left as it is by another application of the
\* fix, and so is every summary without "800-204C" whose 800-210 URLs are
\* well-formed.
FixIdempotent ==
    wpc = "save" =>
        /\ (\E response \in Responses : summary = validate_and_fix_summary(response))
              => validate_and_fix_summary(summary) = summary
        /\ (~Contains(summary, "800-204C") /\ WellFormed210(summary))
              => validate_and_fix_summary(summary) = summary

\* C23: a summary that went through the fix contains no identifier of the
\* validator's invalid list, and the invalid-reference check has no error on it.
FixedSummaryHasNoInvalidReference ==
    (wpc = "save" /\ \E response \in Responses :
                        summary = validate_and_fix_summary(response)) =>
        /\ \A k \in 1..Len(invalid_pubs) : ~Contains(summary, invalid_pubs[k])
        /\ check_invalid_publications(NewValidator, summary).errors = <<>>

\* what C24 says of a fallback summary: the first two required headings and none
\* of the other four, so four errors and two passes of the section check
FourSectionErrors(text) ==
    /\ \A k \in 1..2 : Contains(text, required_sections[k])
    /\ \A k \in 3..Len(required_sections) : ~Contains(text, required_sections[k])
    /\ Len(check_required_sections(NewValidator, text).errors) = 4
    /\ Len(check_required_sections(NewValidator, text).passed_checks) = 2

\* C24: the fallback summary gets the verdict "failed" from the same six checks as
\* any text, with exactly four errors of the section check: for the summary that
\* generate_summary returned, for the fallback of every list of the catalog's most
\* recent articles, and for the validator's run on the file written.
FallbackSummaryFails ==
    /\ (wpc = "save" /\ summary = generate_fallback_summary(articles)) =>
          /\ generate_report(run_checks(NewValidator, summary)).status = "failed"
          /\ FourSectionErrors(summary)
          /\ \A n \in 0..Len(nist_publications) :
                FourSectionErrors(generate_fallback_summary(search_nist_updates(n)))
    /\ \A v \in validated :
          (wpc # "fatal" /\ v.text = generate_fallback_summary(articles)) =>
              v.status = "failed"

\* the validator has run on the file that holds the fallback summary
FallbackSummaryFailsWitness ==
    /\ wpc = "completed"
    /\ local_file = generate_fallback_summary(articles)
    /\ articles # <<>>
    /\ \E v \in validated : v.text = local_file /\ v.status = "failed"

====
